---- MODULE Spec2Model ----
(***************************************************************************)
(* Model of ELIMINADOR-IPS-PRIVADAS.py: the address classifier             *)
(* es_ip_privada, the filter filtrar_ips_publicas, the exporter            *)
(* guardar_resultado_csv and the menu loop of main.                        *)
(*                                                                         *)
(* A Python str is a sequence of one-character strings, so that strip,     *)
(* split, the address parser and the code-point order of sorted() are      *)
(* computed, not assumed.  The semantics of the standard library           *)
(* (str.strip, ipaddress.ip_address and the is_* properties) are those of  *)
(* CPython 3.11.                                                           *)
(***************************************************************************)
EXTENDS Integers, Sequences, FiniteSets, TLC

(***************************************************************************)
(* Bounds of the model.                                                    *)
(***************************************************************************)
\* longest run of whitespace put before and after an input of the classifier
MaxPad == 1
\* largest input set handed to the filter
MaxIps == 3
\* calls of the filter recorded in one behaviour of SpecFiltro
MaxLlamadas == 2
\* iterations of the menu loop in one behaviour of Spec
MaxIteraciones == 2
\* seconds the wall clock may advance during a session
MaxReloj == 2
\* largest number of lines or fields a collector reads in one iteration
MaxCampos == 2
\* tics of the clock in one second
TicsPorSegundo == 2

(***************************************************************************)
(* Characters and strings.                                                 *)
(***************************************************************************)
Range(s) == {s[i] : i \in 1..Len(s)}

\* ord(c) for the characters the inputs are made of
Ord(c) ==
    CASE c = "\t" -> 9   [] c = "\n" -> 10  [] c = " " -> 32  [] c = "%" -> 37
      [] c = "-" -> 45   [] c = "." -> 46   [] c = "/" -> 47
      [] c = "0" -> 48   [] c = "1" -> 49   [] c = "2" -> 50  [] c = "3" -> 51
      [] c = "4" -> 52   [] c = "5" -> 53   [] c = "6" -> 54  [] c = "7" -> 55
      [] c = "8" -> 56   [] c = "9" -> 57   [] c = ":" -> 58
      [] c = "A" -> 65   [] c = "B" -> 66   [] c = "C" -> 67  [] c = "D" -> 68
      [] c = "E" -> 69   [] c = "F" -> 70   [] c = "I" -> 73  [] c = "N" -> 78
      [] c = "a" -> 97   [] c = "b" -> 98   [] c = "c" -> 99  [] c = "d" -> 100
      [] c = "e" -> 101  [] c = "f" -> 102  [] c = "i" -> 105 [] c = "n" -> 110
      [] c = "o" -> 111  [] c = "p" -> 112  [] c = "t" -> 116

\* str.isspace() on one character
isspace(c) == c \in {" ", "\t", "\n"}

RECURSIVE lstrip(_)
lstrip(s) == IF s # <<>> /\ isspace(Head(s)) THEN lstrip(Tail(s)) ELSE s

RECURSIVE rstrip(_)
rstrip(s) ==
    IF s # <<>> /\ isspace(s[Len(s)]) THEN rstrip(SubSeq(s, 1, Len(s) - 1)) ELSE s

\* str.strip(): both ends, nothing inside
strip(s) == rstrip(lstrip(s))

\* str.lower() on one character, then on a string
lower_char(c) ==
    CASE c = "A" -> "a" [] c = "B" -> "b" [] c = "C" -> "c" [] c = "D" -> "d"
      [] c = "E" -> "e" [] c = "F" -> "f" [] c = "I" -> "i" [] c = "N" -> "n"
      [] OTHER -> c

lower(s) == [i \in 1..Len(s) |-> lower_char(s[i])]

RECURSIVE split_from(_, _, _, _, _)
split_from(s, sep, i, cur, acc) ==
    IF i > Len(s) THEN Append(acc, cur)
    ELSE IF s[i] = sep THEN split_from(s, sep, i + 1, <<>>, Append(acc, cur))
    ELSE split_from(s, sep, i + 1, Append(cur, s[i]), acc)

\* str.split(sep): the parts between the separators, at least one part
split(s, sep) == split_from(s, sep, 1, <<>>, <<>>)

\* str.partition(sep): head, separator found, tail
partition(s, sep) ==
    IF sep \in Range(s)
    THEN LET k == CHOOSE i \in 1..Len(s) :
                      s[i] = sep /\ \A j \in 1..(i - 1) : s[j] # sep
         IN  [head |-> SubSeq(s, 1, k - 1), found |-> TRUE,
              tail |-> SubSeq(s, k + 1, Len(s))]
    ELSE [head |-> s, found |-> FALSE, tail |-> <<>>]

\* code-point comparison of two str values (the order sorted() uses)
RECURSIVE str_lt(_, _)
str_lt(a, b) ==
    IF b = <<>> THEN FALSE
    ELSE IF a = <<>> THEN TRUE
    ELSE IF Ord(Head(a)) # Ord(Head(b)) THEN Ord(Head(a)) < Ord(Head(b))
    ELSE str_lt(Tail(a), Tail(b))

(***************************************************************************)
(* ipaddress.ip_address: the parsers of IPv4Address and IPv6Address.       *)
(***************************************************************************)
DecDigits == <<"0", "1", "2", "3", "4", "5", "6", "7", "8", "9">>
HexLower == <<"0", "1", "2", "3", "4", "5", "6", "7", "8", "9",
              "a", "b", "c", "d", "e", "f">>
HexUpper == <<"0", "1", "2", "3", "4", "5", "6", "7", "8", "9",
              "A", "B", "C", "D", "E", "F">>

IndexOf(c, seq) == CHOOSE i \in 1..Len(seq) : seq[i] = c

dec_value(c) == IndexOf(c, DecDigits) - 1
hex_value(c) ==
    IF c \in Range(HexLower) THEN IndexOf(c, HexLower) - 1
    ELSE IndexOf(c, HexUpper) - 1

\* int(s, base) of a string of digits of that base
RECURSIVE int_dec(_)
int_dec(s) ==
    IF s = <<>> THEN 0
    ELSE int_dec(SubSeq(s, 1, Len(s) - 1)) * 10 + dec_value(s[Len(s)])

RECURSIVE int_hex(_)
int_hex(s) ==
    IF s = <<>> THEN 0
    ELSE int_hex(SubSeq(s, 1, Len(s) - 1)) * 16 + hex_value(s[Len(s)])

\* '%x' % n
RECURSIVE format_hex(_)
format_hex(n) ==
    IF n < 16 THEN <<HexLower[n + 1]>>
    ELSE Append(format_hex(n \div 16), HexLower[(n % 16) + 1])

\* the parse that raised ValueError
NoAddress == [ok |-> FALSE, version |-> 0, words |-> <<>>]

\* IPv4Address._parse_octet: -1 stands for its ValueError
parse_octet(o) ==
    IF o = <<>> THEN -1
    ELSE IF ~(Range(o) \subseteq Range(DecDigits)) THEN -1
    ELSE IF Len(o) > 3 THEN -1
    ELSE IF o # <<"0">> /\ o[1] = "0" THEN -1
    ELSE IF int_dec(o) > 255 THEN -1
    ELSE int_dec(o)

\* IPv4Address(str): version 4 and the four octets
IPv4Address(s) ==
    IF "/" \in Range(s) \/ s = <<>> THEN NoAddress
    ELSE LET octets == split(s, ".")
         IN  IF Len(octets) # 4 THEN NoAddress
             ELSE IF \E i \in 1..4 : parse_octet(octets[i]) = -1 THEN NoAddress
             ELSE [ok |-> TRUE, version |-> 4,
                   words |-> [i \in 1..4 |-> parse_octet(octets[i])]]

\* IPv6Address._parse_hextet: -1 stands for its ValueError
parse_hextet(h) ==
    IF ~(Range(h) \subseteq (Range(HexLower) \cup Range(HexUpper))) THEN -1
    ELSE IF Len(h) > 4 THEN -1
    ELSE IF h = <<>> THEN -1
    ELSE int_hex(h)

\* IPv6Address._ip_int_from_string after the IPv4 suffix is replaced:
\* the eight hextets, or <<>> for an AddressValueError
hextets_of(parts) ==
    LET n == Len(parts)
        skips == {i \in 2..(n - 1) : parts[i] = <<>>}
    IN  IF n > 9 \/ Cardinality(skips) > 1 THEN <<>>
        ELSE IF skips # {}
        THEN LET j == CHOOSE i \in skips : TRUE
                 hi0 == j - 1
                 lo0 == n - j
                 hi == IF parts[1] = <<>> THEN hi0 - 1 ELSE hi0
                 lo == IF parts[n] = <<>> THEN lo0 - 1 ELSE lo0
                 skipped == 8 - (hi + lo)
                 high == [i \in 1..hi |-> parse_hextet(parts[i])]
                 low == [i \in 1..lo |-> parse_hextet(parts[n - lo + i])]
             IN  IF parts[1] = <<>> /\ hi # 0 THEN <<>>
                 ELSE IF parts[n] = <<>> /\ lo # 0 THEN <<>>
                 ELSE IF skipped < 1 THEN <<>>
                 ELSE IF -1 \in (Range(high) \cup Range(low)) THEN <<>>
                 ELSE high \o [i \in 1..skipped |-> 0] \o low
        ELSE IF n # 8 \/ parts[1] = <<>> \/ parts[n] = <<>> THEN <<>>
        ELSE LET all == [i \in 1..n |-> parse_hextet(parts[i])]
             IN  IF -1 \in Range(all) THEN <<>> ELSE all

\* IPv6Address(str): version 6 and the eight hextets; the scope id after
\* '%' is checked and takes no part in the classification
IPv6Address(s) ==
    LET p == partition(s, "%")
        addr == p.head
        parts0 == split(addr, ":")
        last == parts0[Len(parts0)]
        v4 == IPv4Address(last)
        parts == IF "." \in Range(last)
                 THEN SubSeq(parts0, 1, Len(parts0) - 1)
                      \o <<format_hex(v4.words[1] * 256 + v4.words[2]),
                           format_hex(v4.words[3] * 256 + v4.words[4])>>
                 ELSE parts0
    IN  IF "/" \in Range(s) THEN NoAddress
        ELSE IF p.found /\ (p.tail = <<>> \/ "%" \in Range(p.tail)) THEN NoAddress
        ELSE IF addr = <<>> \/ Len(parts0) < 3 THEN NoAddress
        ELSE IF "." \in Range(last) /\ ~v4.ok THEN NoAddress
        ELSE IF hextets_of(parts) = <<>> THEN NoAddress
        ELSE [ok |-> TRUE, version |-> 6, words |-> hextets_of(parts)]

\* ipaddress.ip_address(str): IPv4 first, then IPv6, else ValueError
ip_address(s) ==
    IF IPv4Address(s).ok THEN IPv4Address(s) ELSE IPv6Address(s)

(***************************************************************************)
(* Networks and the is_* properties of an address.                         *)
(***************************************************************************)
\* _BaseNetwork.__contains__: the first plen bits agree; a network of the
\* other version holds nothing
in_network(ip, net) ==
    /\ ip.version = net.version
    /\ LET w == IF ip.version = 4 THEN 8 ELSE 16
       IN  \A i \in 1..Len(ip.words) :
               LET r == net.plen - (i - 1) * w
               IN  IF r >= w THEN ip.words[i] = net.words[i]
                   ELSE IF r <= 0 THEN TRUE
                   ELSE ip.words[i] \div (2 ^ (w - r))
                            = net.words[i] \div (2 ^ (w - r))

IPv4Network(a, b, c, d, plen) ==
    [version |-> 4, words |-> <<a, b, c, d>>, plen |-> plen]

\* hs: the leading hextets of the network address, the rest being zero
IPv6Network(hs, plen) ==
    [version |-> 6, words |-> hs \o [i \in 1..(8 - Len(hs)) |-> 0], plen |-> plen]

\* _IPv4Constants
v4_linklocal_network == IPv4Network(169, 254, 0, 0, 16)
v4_loopback_network == IPv4Network(127, 0, 0, 0, 8)
v4_multicast_network == IPv4Network(224, 0, 0, 0, 4)
v4_reserved_network == IPv4Network(240, 0, 0, 0, 4)
v4_private_networks ==
    {IPv4Network(0, 0, 0, 0, 8), IPv4Network(10, 0, 0, 0, 8),
     IPv4Network(127, 0, 0, 0, 8), IPv4Network(169, 254, 0, 0, 16),
     IPv4Network(172, 16, 0, 0, 12), IPv4Network(192, 0, 0, 0, 29),
     IPv4Network(192, 0, 0, 170, 31), IPv4Network(192, 0, 2, 0, 24),
     IPv4Network(192, 168, 0, 0, 16), IPv4Network(198, 18, 0, 0, 15),
     IPv4Network(198, 51, 100, 0, 24), IPv4Network(203, 0, 113, 0, 24),
     IPv4Network(240, 0, 0, 0, 4), IPv4Network(255, 255, 255, 255, 32)}

\* _IPv6Constants
v6_linklocal_network == IPv6Network(<<\hfe80>>, 10)
v6_multicast_network == IPv6Network(<<\hff00>>, 8)
v6_sitelocal_network == IPv6Network(<<\hfec0>>, 10)
v6_private_networks ==
    {IPv6Network(<<0, 0, 0, 0, 0, 0, 0, 1>>, 128), IPv6Network(<<>>, 128),
     IPv6Network(<<0, 0, 0, 0, 0, \hffff>>, 96), IPv6Network(<<\h0100>>, 64),
     IPv6Network(<<\h2001>>, 23), IPv6Network(<<\h2001, 2>>, 48),
     IPv6Network(<<\h2001, \h0db8>>, 32), IPv6Network(<<\h2001, \h0010>>, 28),
     IPv6Network(<<\hfc00>>, 7), IPv6Network(<<\hfe80>>, 10)}
v6_reserved_networks ==
    {IPv6Network(<<>>, 8), IPv6Network(<<\h0100>>, 8), IPv6Network(<<\h0200>>, 7),
     IPv6Network(<<\h0400>>, 6), IPv6Network(<<\h0800>>, 5),
     IPv6Network(<<\h1000>>, 4), IPv6Network(<<\h4000>>, 3),
     IPv6Network(<<\h6000>>, 3), IPv6Network(<<\h8000>>, 3),
     IPv6Network(<<\ha000>>, 3), IPv6Network(<<\hc000>>, 3),
     IPv6Network(<<\he000>>, 4), IPv6Network(<<\hf000>>, 5),
     IPv6Network(<<\hf800>>, 6), IPv6Network(<<\hfe00>>, 9)}

\* IPv6Address.ipv4_mapped: the IPv4 address of ::ffff:a.b.c.d, else no address
ipv4_mapped(ip) ==
    IF SubSeq(ip.words, 1, 6) = <<0, 0, 0, 0, 0, \hffff>>
    THEN [ok |-> TRUE, version |-> 4,
          words |-> <<ip.words[7] \div 256, ip.words[7] % 256,
                      ip.words[8] \div 256, ip.words[8] % 256>>]
    ELSE NoAddress

is_private(ip) ==
    IF ip.version = 4 THEN \E net \in v4_private_networks : in_network(ip, net)
    ELSE IF ipv4_mapped(ip).ok
    THEN \E net \in v4_private_networks : in_network(ipv4_mapped(ip), net)
    ELSE \E net \in v6_private_networks : in_network(ip, net)

is_reserved(ip) ==
    IF ip.version = 4 THEN in_network(ip, v4_reserved_network)
    ELSE \E net \in v6_reserved_networks : in_network(ip, net)

is_loopback(ip) ==
    IF ip.version = 4 THEN in_network(ip, v4_loopback_network)
    ELSE ip.words = <<0, 0, 0, 0, 0, 0, 0, 1>>

is_link_local(ip) ==
    IF ip.version = 4 THEN in_network(ip, v4_linklocal_network)
    ELSE in_network(ip, v6_linklocal_network)

is_multicast(ip) ==
    IF ip.version = 4 THEN in_network(ip, v4_multicast_network)
    ELSE in_network(ip, v6_multicast_network)

\* only IPv6Address has the attribute: on an IPv4Address the read raises
\* AttributeError, which is no boolean and is not caught by the classifier
is_site_local(ip) ==
    IF ip.version = 6 THEN in_network(ip, v6_sitelocal_network)
    ELSE "AttributeError"

\* isinstance(ip, ipaddress.IPv6Address)
isinstance_IPv6Address(ip) == ip.version = 6

(***************************************************************************)
(* es_ip_privada: the value returned and the lines printed by one call.    *)
(***************************************************************************)
\* the warning printed for a string that is no address
LineaInvalida(ip_str) == [texto |-> "IP invalida", ip |-> ip_str]

\* a plausible slip: the handler of ValueError answers "public"
es_ip_privada_abierta(ip_str) ==
    LET ip == ip_address(strip(ip_str))
    IN  IF ~ip.ok
        THEN [estado |-> "return", valor |-> FALSE,
              salida |-> <<LineaInvalida(ip_str)>>]
        ELSE [estado |-> "return",
              valor |-> \/ is_private(ip)
                        \/ is_reserved(ip)
                        \/ is_loopback(ip)
                        \/ is_link_local(ip)
                        \/ is_multicast(ip)
                        \/ (isinstance_IPv6Address(ip) /\ is_site_local(ip)),
              salida |-> <<>>]

\* a plausible slip: the site-local test is left out
es_ip_privada_sin_site_local(ip_str) ==
    LET ip == ip_address(strip(ip_str))
    IN  IF ~ip.ok
        THEN [estado |-> "return", valor |-> TRUE,
              salida |-> <<LineaInvalida(ip_str)>>]
        ELSE [estado |-> "return",
              valor |-> \/ is_private(ip)
                        \/ is_reserved(ip)
                        \/ is_loopback(ip)
                        \/ is_link_local(ip)
                        \/ is_multicast(ip),
              salida |-> <<>>]

\* a plausible slip: the warning is printed for every address judged private
es_ip_privada_avisa_siempre(ip_str) ==
    LET ip == ip_address(strip(ip_str))
        valor == \/ ~ip.ok
                 \/ is_private(ip)
                 \/ is_reserved(ip)
                 \/ is_loopback(ip)
                 \/ is_link_local(ip)
                 \/ is_multicast(ip)
                 \/ (isinstance_IPv6Address(ip) /\ is_site_local(ip))
    IN  [estado |-> "return", valor |-> valor,
         salida |-> IF valor THEN <<LineaInvalida(ip_str)>> ELSE <<>>]

es_ip_privada(ip_str) ==
    LET ip == ip_address(strip(ip_str))
    IN  IF ~ip.ok
        THEN \* except ValueError: print the warning, return True
             [estado |-> "return", valor |-> TRUE,
              salida |-> <<LineaInvalida(ip_str)>>]
        ELSE [estado |-> "return",
              valor |-> \/ is_private(ip)
                        \/ is_reserved(ip)
                        \/ is_loopback(ip)
                        \/ is_link_local(ip)
                        \/ is_multicast(ip)
                        \/ (isinstance_IPv6Address(ip) /\ is_site_local(ip)),
              salida |-> <<>>]

(***************************************************************************)
(* The inputs.                                                             *)
(***************************************************************************)
\* leer_ips_lista: the predefined list, in the order of the source
lista_ips ==
    <<<<"1", "9", "2", ".", "1", "6", "8", ".", "1", ".", "1">>,  \* 192.168.1.1
     <<"1", "0", ".", "0", ".", "0", ".", "1">>,  \* 10.0.0.1
     <<"8", ".", "8", ".", "8", ".", "8">>,  \* 8.8.8.8
     <<"1", ".", "1", ".", "1", ".", "1">>,  \* 1.1.1.1
     <<"1", "7", "2", ".", "1", "6", ".", "0", ".", "1">>,  \* 172.16.0.1
     <<"2", "0", "8", ".", "6", "7", ".", "2", "2", "2", ".", "2", "2", "2">>,  \* 208.67.222.222
     <<"1", "2", "7", ".", "0", ".", "0", ".", "1">>,  \* 127.0.0.1
     <<"1", "6", "9", ".", "2", "5", "4", ".", "1", ".", "1">>,  \* 169.254.1.1
     <<"2", "2", "4", ".", "0", ".", "0", ".", "1">>,  \* 224.0.0.1
     <<"9", "3", ".", "1", "8", "4", ".", "2", "1", "6", ".", "3", "4">>,  \* 93.184.216.34
     <<"1", "9", "2", ".", "1", "6", "8", ".", "1", "0", "0", ".", "5", "0">>,  \* 192.168.100.50
     <<"1", "4", "2", ".", "2", "5", "1", ".", "4", "1", ".", "1", "4">>>>  \* 142.251.41.14

\* further IPv4 addresses: reserved, shared, unspecified, broadcast, documentation
OtrasIPv4 ==
    {<<"2", "4", "0", ".", "0", ".", "0", ".", "1">>,  \* 240.0.0.1
     <<"1", "0", "0", ".", "6", "4", ".", "0", ".", "1">>,  \* 100.64.0.1
     <<"0", ".", "0", ".", "0", ".", "0">>,  \* 0.0.0.0
     <<"2", "5", "5", ".", "2", "5", "5", ".", "2", "5", "5", ".", "2", "5", "5">>,  \* 255.255.255.255
     <<"1", "9", "2", ".", "0", ".", "2", ".", "1">>,  \* 192.0.2.1
     <<"1", "9", "8", ".", "5", "1", ".", "1", "0", "0", ".", "7">>}  \* 198.51.100.7

\* IPv6 addresses: loopback, unspecified, global, link-local, multicast,
\* site-local, unique-local, documentation, IPv4-mapped, with a scope id
DireccionesIPv6 ==
    {<<":", ":", "1">>,  \* ::1
     <<":", ":">>,  \* ::
     <<"2", "0", "0", "1", ":", "4", "8", "6", "0", ":", "4", "8", "6", "0", ":", ":", "8", "8", "8", "8">>,  \* 2001:4860:4860::8888
     <<"2", "6", "0", "6", ":", "4", "7", "0", "0", ":", "4", "7", "0", "0", ":", "0", ":", "0", ":", "0", ":", "0", ":", "1", "1", "1", "1">>,  \* 2606:4700:4700:0:0:0:0:1111
     <<"f", "e", "8", "0", ":", ":", "1">>,  \* fe80::1
     <<"F", "E", "8", "0", ":", ":", "1", "%", "e", "0">>,  \* FE80::1%e0
     <<"f", "f", "0", "2", ":", ":", "1">>,  \* ff02::1
     <<"f", "e", "c", "0", ":", ":", "1">>,  \* fec0::1
     <<"f", "c", "0", "0", ":", ":", "1">>,  \* fc00::1
     <<"2", "0", "0", "1", ":", "d", "b", "8", ":", ":", "1">>,  \* 2001:db8::1
     <<":", ":", "f", "f", "f", "f", ":", "8", ".", "8", ".", "8", ".", "8">>,  \* ::ffff:8.8.8.8
     <<"2", "a", "0", "0", ":", "1", "4", "5", "0", ":", ":", "2", "0", "0", "e", "%", "1">>}  \* 2a00:1450::200e%1

\* strings that are no address
NoDirecciones ==
    {<<>>,  \* (empty)
     <<"n", "o", "t", "-", "a", "n", "-", "i", "p">>,  \* not-an-ip
     <<"f", "i", "n">>,  \* fin
     <<"2", "5", "6", ".", "1", ".", "1", ".", "1">>,  \* 256.1.1.1
     <<"0", "1", ".", "1", ".", "1", ".", "1">>,  \* 01.1.1.1
     <<"1", ".", "1", ".", "1">>,  \* 1.1.1
     <<"1", ".", "1", " ", ".", "1", ".", "1">>,  \* 1.1 .1.1
     <<"8", ".", "8", ".", "8", ".", "8", "/", "3", "2">>,  \* 8.8.8.8/32
     <<"1", ":", ":", "2", ":", ":", "3">>,  \* 1::2::3
     <<"1", "2", "3", "4", "5", ":", ":", "1">>,  \* 12345::1
     <<":", "1">>,  \* :1
     <<"f", "e", "8", "0", ":", ":", "1", "%">>,  \* fe80::1%
     <<"2", "0", "0", "1", ":", "d", "b", "8", ":", ":", "1", ".", "2", ".", "3">>}  \* 2001:db8::1.2.3


Nucleos == Range(lista_ips) \cup OtrasIPv4 \cup DireccionesIPv6 \cup NoDirecciones

RECURSIVE Relleno(_)
\* the runs of blanks and tabs of length at most n
Relleno(n) ==
    IF n = 0 THEN {<<>>}
    ELSE Relleno(n - 1)
            \cup {Append(r, c) : r \in {q \in Relleno(n - 1) : Len(q) = n - 1},
                                 c \in {" ", "\t"}}

\* the inputs of the classifier: every string above, with whitespace around it
Entradas == {l \o n \o r : l \in Relleno(MaxPad), n \in Nucleos, r \in Relleno(MaxPad)}

\* the strings the input sets of SpecFiltro are made of
UniversoFiltro ==
    Range(lista_ips)
        \cup {<<" ", "8", ".", "8", ".", "8", ".", "8">>,
              <<"2", "0", "0", "1", ":", "4", "8", "6", "0", ":", "4", "8", "6", "0",
                ":", ":", "8", "8", "8", "8">>,
              <<"n", "o", "t", "-", "a", "n", "-", "i", "p">>,
              <<":", ":", "1">>}

\* the lines and fields the collectors read in Spec
Lineas ==
    {<<"8", ".", "8", ".", "8", ".", "8">>,
     <<" ", "1", ".", "1", ".", "1", ".", "1", " ">>,
     <<"1", "4", "2", ".", "2", "5", "1", ".", "4", "1", ".", "1", "4">>,
     <<"1", "0", ".", "0", ".", "0", ".", "1">>,
     <<"n", "o", "t", "-", "a", "n", "-", "i", "p">>,
     <<" ">>,
     <<"F", "i", "n", " ">>}

\* es_ip_privada on every string of the model: the call is a function of its
\* argument, evaluated once per string
tabla_es_ip_privada ==
    [s \in Entradas \cup UniversoFiltro \cup {strip(l) : l \in Lineas} |->
        es_ip_privada(s)]

\* a call es_ip_privada(ip) made by the filter
llamar_es_ip_privada(ip) == tabla_es_ip_privada[ip]

(***************************************************************************)
(* filtrar_ips_publicas.                                                   *)
(***************************************************************************)
\* list.insert at the place sorted() gives x: before the first greater element
RECURSIVE insert_sorted(_, _)
insert_sorted(x, ys) ==
    IF ys = <<>> THEN <<x>>
    ELSE IF str_lt(x, Head(ys)) THEN <<x>> \o ys
    ELSE <<Head(ys)>> \o insert_sorted(x, Tail(ys))

\* sorted(xs): ascending in the order of str <
RECURSIVE sorted(_)
sorted(xs) ==
    IF xs = <<>> THEN <<>>
    ELSE insert_sorted(xs[Len(xs)], sorted(SubSeq(xs, 1, Len(xs) - 1)))

\* sorted(xs, reverse=True)
RECURSIVE reversed(_)
reversed(xs) == IF xs = <<>> THEN <<>> ELSE Append(reversed(Tail(xs)), Head(xs))

\* the loop of the filter: the strings judged public, in the order visited
publicas_en_orden(orden) ==
    SelectSeq(orden, LAMBDA ip : ~llamar_es_ip_privada(ip).valor)

\* a plausible slip: the stripped string is kept instead of the raw one
filtrar_ips_publicas_recortadas(orden) ==
    sorted([i \in 1..Len(publicas_en_orden(orden)) |->
                strip(publicas_en_orden(orden)[i])])

\* a plausible slip: the list is sorted in descending order
filtrar_ips_publicas_descendente(orden) ==
    reversed(sorted(publicas_en_orden(orden)))

\* a plausible slip: the list is returned as collected, not sorted
filtrar_ips_publicas_sin_ordenar(orden) == publicas_en_orden(orden)

\* orden: the order in which the for loop visits the elements of the set
filtrar_ips_publicas(orden) == sorted(publicas_en_orden(orden))

\* the orders in which a loop can visit all the elements of S
Permutaciones(S) ==
    {f \in [1..Cardinality(S) -> S] : \A x \in S : \E i \in DOMAIN f : f[i] = x}

RECURSIVE una_secuencia(_)
una_secuencia(S) ==
    IF S = {} THEN <<>>
    ELSE LET x == CHOOSE y \in S : TRUE IN <<x>> \o una_secuencia(S \ {x})

Rotaciones(s) ==
    {SubSeq(s, k, Len(s)) \o SubSeq(s, 1, k - 1) : k \in 1..Len(s)}

\* the iteration orders of a set the model follows: every order of a set of
\* at most MaxIps elements; of a larger set (enumerating all is out of
\* reach) the rotations of one order and of its reverse
Ordenes(S) ==
    IF Cardinality(S) <= MaxIps THEN Permutaciones(S)
    ELSE Rotaciones(una_secuencia(S)) \cup Rotaciones(reversed(una_secuencia(S)))

(***************************************************************************)
(* The collectors and the exporter.                                        *)
(***************************************************************************)
fin == <<"f", "i", "n">>

\* lineas: what the operator types; the loop ends at the first line that
\* reads 'fin' (the operator types it after the last of lineas)
RECURSIVE leer_ips_manual(_)
leer_ips_manual(lineas) ==
    IF lineas = <<>> THEN {}
    ELSE LET ip == strip(Head(lineas))
         IN  IF lower(ip) = fin THEN {}
             ELSE (IF ip # <<>> THEN {ip} ELSE {}) \cup leer_ips_manual(Tail(lineas))

leer_ips_lista == Range(lista_ips)

\* existe: os.path.exists(archivo); campos: the fields of the file, row by
\* row; leidos: how many of them are read before the read fails, all of
\* them when it does not (the handler keeps what was added so far)
leer_ips_csv(existe, campos, leidos) ==
    IF ~existe THEN {}
    ELSE {strip(campos[i]) : i \in 1..(IF leidos < Len(campos) THEN leidos ELSE Len(campos))} \ {<<>>}

\* the clock counts tics; strftime("%Y%m%d_%H%M%S") keeps whole seconds
strftime(ahora) == ahora \div TicsPorSegundo

nombre_de_archivo(ahora) ==
    [dir |-> "output", prefijo |-> "ips_publicas_", timestamp |-> strftime(ahora),
     ext |-> ".csv"]

IP_Publica == <<"I", "P", "_", "P", "u", "b", "l", "i", "c", "a">>

\* a plausible slip: the header row is not written
guardar_resultado_csv_sin_cabecera(publicas, ahora) ==
    [filepath |-> nombre_de_archivo(ahora),
     filas |-> [i \in 1..Len(publicas) |-> <<publicas[i]>>]]

\* publicas: the argument ips_publicas; ahora: datetime.now().
\* The path of the file and the rows written to it
guardar_resultado_csv(publicas, ahora) ==
    [filepath |-> nombre_de_archivo(ahora),
     filas |-> <<<<IP_Publica>>>> \o [i \in 1..Len(publicas) |-> <<publicas[i]>>]]

RECURSIVE Secuencias(_, _)
\* the sequences of at most n elements of S
Secuencias(S, n) ==
    IF n = 0 THEN {<<>>}
    ELSE Secuencias(S, n - 1)
            \cup {Append(q, x) : q \in {r \in Secuencias(S, n - 1) : Len(r) = n - 1},
                                 x \in S}

\* what leer_ips_manual can return: any lines typed before 'fin'
RetornosManual == {leer_ips_manual(lineas) : lineas \in Secuencias(Lineas, MaxCampos)}

\* what leer_ips_csv can return: the file missing or not, any fields in it,
\* the read failing at any field or not at all
RetornosCSV ==
    {leer_ips_csv(t[1], t[2], leidos) :
         t \in {u \in BOOLEAN \X Secuencias(Lineas, MaxCampos) : TRUE},
         leidos \in 0..MaxCampos}

(***************************************************************************)
(* State.                                                                  *)
(***************************************************************************)
VARIABLES
    argumento,            \* the argument of a call of es_ip_privada
    resultado,            \* what that call returned and printed
    consola,              \* the lines a call of es_ip_privada has printed; the
                          \* menu, progress and summary lines of the other
                          \* functions are read by nothing and not recorded
    conjunto,             \* an input set of the filter
    llamadas,             \* the calls of the filter: input set and list returned
    pc,                   \* main: "menu" in the loop, "fin" after option 4,
                          \*       "error" after the handler of line 248
    opcion,               \* main: the option read in the last iteration
    iteraciones,          \* main: iterations of the loop so far
    recogidas,            \* what the collector returned in the last iteration
    ips,                  \* main: ips
    ips_publicas,         \* main: ips_publicas
    filtro_invocado,      \* the last iteration called filtrar_ips_publicas
    exportador_invocado,  \* the last iteration called guardar_resultado_csv
    archivos,             \* the files of the output directory: path -> rows
    exportaciones,        \* the paths returned by the exports of the session
    reloj                 \* datetime.now(), in tics

vars_clasificador == <<argumento, resultado, consola>>
vars_filtro == <<conjunto, llamadas>>
vars_main == <<pc, opcion, iteraciones, recogidas, ips, ips_publicas,
               filtro_invocado, exportador_invocado, archivos, exportaciones, reloj>>
vars == <<vars_clasificador, vars_filtro, vars_main>>

Pendiente == [estado |-> "pendiente", valor |-> FALSE, salida |-> <<>>]
SinArchivos == [n \in {} |-> <<>>]

\* no call of the classifier under way
ClasificadorEnReposo ==
    /\ argumento = <<>>
    /\ resultado = Pendiente
    /\ consola = <<>>

\* no call of the filter recorded
FiltroEnReposo ==
    /\ conjunto = {}
    /\ llamadas = <<>>

\* main before its first iteration
InitMain ==
    /\ pc = "menu"
    /\ opcion = "ninguna"
    /\ iteraciones = 0
    /\ recogidas = {}
    /\ ips = {}
    /\ ips_publicas = <<>>
    /\ filtro_invocado = FALSE
    /\ exportador_invocado = FALSE
    /\ archivos = SinArchivos
    /\ exportaciones = <<>>
    /\ reloj = 0

(***************************************************************************)
(* SpecClasificador: one call of es_ip_privada on any input.               *)
(***************************************************************************)
InitClasificador ==
    /\ argumento \in Entradas
    /\ resultado = Pendiente
    /\ consola = <<>>
    /\ FiltroEnReposo
    /\ InitMain

\* the call: the value is returned and the lines it prints reach the console
Clasificar ==
    /\ resultado.estado = "pendiente"
    /\ resultado' = es_ip_privada(argumento)
    /\ consola' = consola \o es_ip_privada(argumento).salida
    /\ UNCHANGED <<argumento, vars_filtro, vars_main>>

NextClasificador == Clasificar

SpecClasificador == InitClasificador /\ [][NextClasificador]_vars

(***************************************************************************)
(* SpecFiltro: calls of filtrar_ips_publicas on any input set, and on the  *)
(* set of the elements of a list it returned.                              *)
(***************************************************************************)
InitFiltro ==
    /\ conjunto \in {S \in SUBSET UniversoFiltro : Cardinality(S) <= MaxIps}
    /\ llamadas = <<>>
    /\ ClasificadorEnReposo
    /\ InitMain

\* filtrar_ips_publicas(conjunto), the loop visiting the set in any order
Filtrar ==
    /\ Len(llamadas) < MaxLlamadas
    /\ \E orden \in Ordenes(conjunto) :
           llamadas' = Append(llamadas,
                              [entrada |-> conjunto, de |-> 0,
                               salida |-> filtrar_ips_publicas(orden)])
    /\ UNCHANGED <<conjunto, vars_clasificador, vars_main>>

\* filtrar_ips_publicas(set(r)) for a list r returned by an earlier call
Refiltrar ==
    /\ Len(llamadas) < MaxLlamadas
    /\ \E k \in 1..Len(llamadas) :
           \E orden \in Ordenes(Range(llamadas[k].salida)) :
               llamadas' = Append(llamadas,
                                  [entrada |-> Range(llamadas[k].salida), de |-> k,
                                   salida |-> filtrar_ips_publicas(orden)])
    /\ UNCHANGED <<conjunto, vars_clasificador, vars_main>>

NextFiltro == Filtrar \/ Refiltrar

SpecFiltro == InitFiltro /\ [][NextFiltro]_vars

(***************************************************************************)
(* Spec: the menu loop of main.  One action is one iteration of the loop.  *)
(***************************************************************************)
Init ==
    /\ InitMain
    /\ ClasificadorEnReposo
    /\ FiltroEnReposo

\* archivos after open(filepath, 'w') and the writes of filas
escribir(filepath, filas) ==
    [n \in DOMAIN archivos \cup {filepath} |->
        IF n = filepath THEN filas ELSE archivos[n]]

\* a plausible slip: the test "if not ips: continue" is left out
Procesar_sin_guardia(op, nuevas) ==
    /\ pc = "menu"
    /\ iteraciones < MaxIteraciones
    /\ opcion' = op
    /\ iteraciones' = iteraciones + 1
    /\ recogidas' = nuevas
    /\ ips' = nuevas
    /\ \E orden \in Ordenes(nuevas) :
           /\ filtro_invocado' = TRUE
           /\ ips_publicas' = filtrar_ips_publicas(orden)
           /\ exportador_invocado' = (filtrar_ips_publicas(orden) # <<>>)
           /\ UNCHANGED <<pc, archivos, exportaciones>>
    /\ UNCHANGED <<reloj, vars_clasificador, vars_filtro>>

\* lines 214-240: the iteration once the collector has returned nuevas
Procesar(op, nuevas) ==
    /\ pc = "menu"
    /\ iteraciones < MaxIteraciones
    /\ opcion' = op
    /\ iteraciones' = iteraciones + 1
    /\ recogidas' = nuevas
    /\ ips' = nuevas
    /\ IF nuevas = {}
       THEN \* "No se encontraron IPs para procesar": continue
            /\ filtro_invocado' = FALSE
            /\ exportador_invocado' = FALSE
            /\ UNCHANGED <<pc, ips_publicas, archivos, exportaciones>>
       ELSE \E orden \in Ordenes(nuevas) :
                LET publicas == filtrar_ips_publicas(orden)
                    guardado == guardar_resultado_csv(publicas, reloj)
                IN  /\ filtro_invocado' = TRUE
                    /\ ips_publicas' = publicas
                    /\ IF publicas = <<>>
                       THEN /\ exportador_invocado' = FALSE
                            /\ UNCHANGED <<pc, archivos, exportaciones>>
                       ELSE /\ exportador_invocado' = TRUE
                            /\ \/ \* the file is written and its path returned
                                  /\ archivos' = escribir(guardado.filepath, guardado.filas)
                                  /\ exportaciones' = Append(exportaciones, guardado.filepath)
                                  /\ UNCHANGED pc
                               \/ \* os.makedirs or open raises OSError: nothing
                                  \* catches it before line 248, the process ends
                                  /\ pc' = "error"
                                  /\ UNCHANGED <<archivos, exportaciones>>
                               \/ \* a write raises OSError: the file is left
                                  \* truncated with some of its rows
                                  /\ \E k \in 0..Len(publicas) :
                                         archivos' = escribir(guardado.filepath,
                                                              SubSeq(guardado.filas, 1, k))
                                  /\ pc' = "error"
                                  /\ UNCHANGED exportaciones
    /\ UNCHANGED <<reloj, vars_clasificador, vars_filtro>>

\* option 1
OpcionManual == \E nuevas \in RetornosManual : Procesar("1", nuevas)

\* option 2
OpcionLista == Procesar("2", leer_ips_lista)

\* option 3
OpcionCSV == \E nuevas \in RetornosCSV : Procesar("3", nuevas)

\* option 4: break
OpcionSalir ==
    /\ pc = "menu"
    /\ pc' = "fin"
    /\ opcion' = "4"
    /\ UNCHANGED <<iteraciones, recogidas, ips, ips_publicas, filtro_invocado,
                   exportador_invocado, archivos, exportaciones, reloj,
                   vars_clasificador, vars_filtro>>

\* any other option: ips is the empty set of line 202, continue
OpcionInvalida ==
    /\ pc = "menu"
    /\ iteraciones < MaxIteraciones
    /\ opcion' = "otra"
    /\ iteraciones' = iteraciones + 1
    /\ recogidas' = {}
    /\ ips' = {}
    /\ filtro_invocado' = FALSE
    /\ exportador_invocado' = FALSE
    /\ UNCHANGED <<pc, ips_publicas, archivos, exportaciones, reloj,
                   vars_clasificador, vars_filtro>>

\* time passes while the program waits for the operator
Tic ==
    /\ pc = "menu"
    /\ reloj < MaxReloj
    /\ reloj' = reloj + 1
    /\ UNCHANGED <<pc, opcion, iteraciones, recogidas, ips, ips_publicas,
                   filtro_invocado, exportador_invocado, archivos, exportaciones,
                   vars_clasificador, vars_filtro>>

Next ==
    \/ OpcionManual
    \/ OpcionLista
    \/ OpcionCSV
    \/ OpcionSalir
    \/ OpcionInvalida
    \/ Tic

Spec == Init /\ [][Next]_vars

(***************************************************************************)
(* The claims.                                                             *)
(***************************************************************************)
\* the whitespace-trimmed form of a string, stated without the loops of
\* strip: what lies between its first and its last non-blank character
Recortada(s) ==
    LET visibles == {i \in 1..Len(s) : s[i] \notin {" ", "\t", "\n"}}
    IN  IF visibles = {} THEN <<>>
        ELSE SubSeq(s, CHOOSE i \in visibles : \A j \in visibles : i <= j,
                       CHOOSE i \in visibles : \A j \in visibles : j <= i)

\* a is before b in the lexicographic order of code points: they agree on
\* a prefix after which a has ended and b has not, or a has the smaller
\* character
LexMenor(a, b) ==
    \E k \in 1..Len(b) :
        /\ k - 1 <= Len(a)
        /\ \A j \in 1..(k - 1) : a[j] = b[j]
        /\ (k > Len(a) \/ Ord(a[k]) < Ord(b[k]))

\* the address is in one of the five ranges tested for both versions
EnRangoComun(ip) ==
    \/ is_private(ip)
    \/ is_reserved(ip)
    \/ is_loopback(ip)
    \/ is_link_local(ip)
    \/ is_multicast(ip)

\* the rows a file must hold for a list: the header, then one row of one
\* field per element, in the order of the list
FilasDe(lista) ==
    [i \in 1..(Len(lista) + 1) |-> IF i = 1 THEN <<IP_Publica>> ELSE <<lista[i - 1]>>]

C2_VeredictoPorRangos ==
    (resultado.estado = "return" /\ ip_address(Recortada(argumento)).ok) =>
        LET ip == ip_address(Recortada(argumento))
        IN  /\ resultado.valor
                  = (EnRangoComun(ip)
                       \/ (ip.version = 6 /\ in_network(ip, v6_sitelocal_network)))
            /\ resultado.valor = es_ip_privada(Recortada(argumento)).valor
            /\ (ip.version = 4 => resultado.valor = EnRangoComun(ip))

\* C2, its case: a string with whitespace around a site-local IPv6 address,
\* which is in none of the five common ranges, has been judged non-public
C2_Testigo ==
    /\ resultado.estado = "return"
    /\ argumento # Recortada(argumento)
    /\ ip_address(Recortada(argumento)).ok
    /\ ip_address(Recortada(argumento)).version = 6
    /\ ~EnRangoComun(ip_address(Recortada(argumento)))
    /\ resultado.valor = TRUE

C3_ExactamenteLasPublicas ==
    \A k \in 1..Len(llamadas) :
        LET S == llamadas[k].entrada
            r == llamadas[k].salida
        IN  /\ Range(r) = {a \in S : ~es_ip_privada(a).valor}
            /\ Len(r) + Cardinality({a \in S : es_ip_privada(a).valor}) = Cardinality(S)

\* C3, its case: a set with a public string that has a blank before it, a
\* private address and a string that is no address has been filtered
C3_Testigo ==
    \E k \in 1..Len(llamadas) :
        /\ llamadas[k].entrada
               = {<<" ", "8", ".", "8", ".", "8", ".", "8">>,
                  <<"1", "0", ".", "0", ".", "0", ".", "1">>,
                  <<"n", "o", "t", "-", "a", "n", "-", "i", "p">>}
        /\ llamadas[k].salida = <<<<" ", "8", ".", "8", ".", "8", ".", "8">>>>

\* C4: the list returned is strictly ascending in the lexicographic order
\* of code points (so it has no duplicates), and two calls on the same set
\* return the same list whatever the orders in which their loops visited it.
C4_OrdenLexicografico ==
    \A k \in 1..Len(llamadas) :
        LET r == llamadas[k].salida
        IN  /\ \A i \in 1..Len(r) : \A j \in 1..Len(r) :
                   i < j => LexMenor(r[i], r[j])
            /\ \A m \in 1..Len(llamadas) :
                   llamadas[m].entrada = llamadas[k].entrada
                       => llamadas[m].salida = r

\* C4, its case: a set has been filtered twice and the list has
\* "142.251.41.14" right before "8.8.8.8", against the numeric order
C4_Testigo ==
    /\ Len(llamadas) = 2
    /\ llamadas[1].entrada = llamadas[2].entrada
    /\ llamadas[2].de = 0
    /\ \E i \in 1..(Len(llamadas[2].salida) - 1) :
           /\ llamadas[2].salida[i]
                  = <<"1", "4", "2", ".", "2", "5", "1", ".", "4", "1", ".", "1", "4">>
           /\ llamadas[2].salida[i + 1] = <<"8", ".", "8", ".", "8", ".", "8">>

\* C5: filtering the set of the elements of a list the filter returned
\* returns that list.
C5_Idempotente ==
    \A k \in 1..Len(llamadas) :
        llamadas[k].de # 0 => llamadas[k].salida = llamadas[llamadas[k].de].salida

\* C5, its case: a list of several addresses has been filtered again
C5_Testigo ==
    \E k \in 1..Len(llamadas) :
        /\ llamadas[k].de # 0
        /\ Len(llamadas[k].salida) >= 2
        /\ Cardinality(llamadas[llamadas[k].de].entrada) > Len(llamadas[k].salida)

\* C6: after an export that succeeded, the file it returned holds the
\* header row IP_Publica and then one row of one field per element of the
\* list, in the order of the list; and that list is the output of the
\* filter for the set of the iteration: its public members, ascending.
C6_ArchivoExportado ==
    (exportador_invocado /\ pc # "error") =>
        LET filepath == exportaciones[Len(exportaciones)]
        IN  /\ archivos[filepath] = FilasDe(ips_publicas)
            /\ Range(ips_publicas) = {a \in ips : ~es_ip_privada(a).valor}
            /\ \A i \in 1..Len(ips_publicas) : \A j \in 1..Len(ips_publicas) :
                   i < j => LexMenor(ips_publicas[i], ips_publicas[j])

\* C6, its case: a list of several addresses has been exported
C6_Testigo ==
    /\ exportador_invocado
    /\ pc = "menu"
    /\ Len(ips_publicas) >= 2
    /\ Len(archivos[exportaciones[Len(exportaciones)]]) = Len(ips_publicas) + 1

\* C7 as claimed: any two exports of a session go to distinct file names,
\* two exports within the same second among them.
C7_NombresUnicos ==
    \A i \in 1..Len(exportaciones) : \A j \in 1..Len(exportaciones) :
        i # j => exportaciones[i] # exportaciones[j]

\* C8 as claimed: an I/O failure never ends the session; the menu loop is
\* left only by option 4.
C8_SoloSaleConOpcion4 == pc # "menu" => (pc = "fin" /\ opcion = "4")

\* C10: the filter is called only on a non-empty set; the exporter is
\* called in an iteration exactly when the filter was called in it and
\* returned a non-empty list; the set given to the filter is the one
\* collected in the iteration, so the list filtered and the rows exported
\* hold addresses of that iteration only.
C10_BucleDelMenu ==
    /\ filtro_invocado => ips # {}
    /\ exportador_invocado <=> (filtro_invocado /\ ips_publicas # <<>>)
    /\ ips = recogidas
    /\ filtro_invocado
           => Range(ips_publicas) = {a \in recogidas : ~es_ip_privada(a).valor}
    /\ (exportador_invocado /\ pc # "error")
           => \A i \in 2..Len(archivos[exportaciones[Len(exportaciones)]]) :
                  archivos[exportaciones[Len(exportaciones)]][i][1] \in recogidas

\* C10, its case: a second iteration has exported its own addresses while
\* a file of the first iteration holds an address it did not collect
C10_Testigo ==
    /\ iteraciones = 2
    /\ exportador_invocado
    /\ pc = "menu"
    /\ \E f \in DOMAIN archivos :
           \E i \in 2..Len(archivos[f]) : archivos[f][i][1] \notin recogidas

====
